---- MODULE Spec2Model ----
(***************************************************************************)
(* Model of the device-tracker dashboard: the page shell (Home) and the    *)
(* map widget (GoogleMap, Map, Marker) of src/app/components/GoogleMap.tsx.*)
(*                                                                         *)
(* React is modelled as the production runtime the "use client" directive  *)
(* implies (React 18+): state setters enqueue updates, every pending       *)
(* update is applied by the next render (automatic batching), passive      *)
(* effects of a commit run clean-ups first and bodies second, children     *)
(* before parents, and a setter called for an unmounted component is       *)
(* dropped.  Coordinates are in 1/10000 of a degree; every coordinate      *)
(* object carries the identity (ref) that React's dependency comparison    *)
(* (Object.is) sees.                                                       *)
(***************************************************************************)
EXTENDS Integers, Sequences, FiniteSets, TLC

VARIABLES apiKeyEnv, hasGeolocation, page, hooks, queue, view, fx,
          gmaps, gmarkers, geo, loader, calls, nextRef

vars == <<apiKeyEnv, hasGeolocation, page, hooks, queue, view, fx,
          gmaps, gmarkers, geo, loader, calls, nextRef>>

(* ---- bounds ---- *)
MaxRerenders == 2

(* ---- values ---- *)
None == <<>>
Some(x) == <<x>>

UNDEFINED == "<undefined>"
EnvValues == {UNDEFINED, "", "AIzaKey"}

Positions == { [lat |-> 400000, lng |-> -740000],
               [lat |-> 0, lng |-> 0],
               [lat |-> 377749, lng |-> -1224194] }

ErrorMessages == {"User denied Geolocation", "Timeout expired", ""}

NotSupported == "Geolocation is not supported by this browser"

(* the coordinates the mapping library keeps from a LatLngLiteral *)
LatLng(c) == [lat |-> c.lat, lng |-> c.lng]

(* ---- page shell ---- *)
googleMapsApiKey(env) == IF env = UNDEFINED \/ env = "" THEN "" ELSE env

HomeShows_definedCheck(key) ==
    IF key # UNDEFINED THEN "widget" ELSE "placeholder"

HomeShows(key) == IF key # "" THEN "widget" ELSE "placeholder"

(* ---- React state ---- *)
Update(hook, value) == [hook |-> hook, value |-> value]

Dispatch_ignoresUnmount(q, mounted, upd) == Append(q, upd)

Dispatch(q, mounted, upd) == IF mounted THEN Append(q, upd) ELSE q

RECURSIVE ApplyUpdates(_, _)
ApplyUpdates(h, q) ==
    IF q = <<>> THEN h
    ELSE ApplyUpdates([h EXCEPT ![Head(q).hook] = Head(q).value], Tail(q))

GoogleMapHooks == {"userLocation", "locationError", "isLoadingLocation"}

InitialHooks == [userLocation |-> None, locationError |-> None,
                 isLoadingLocation |-> TRUE,
                 status |-> "NONE", map |-> 0, marker |-> 0]

(* ---- GoogleMap: geolocation effect and its callbacks ---- *)
OnSuccess_keepsLoading(q, mounted, position, ref) ==
    LET location == [lat |-> position.lat, lng |-> position.lng, ref |-> ref]
    IN Dispatch(q, mounted, Update("userLocation", Some(location)))

OnSuccess(q, mounted, position, ref) ==
    LET location == [lat |-> position.lat, lng |-> position.lng, ref |-> ref]
    IN Dispatch(Dispatch(q, mounted, Update("userLocation", Some(location))),
                mounted, Update("isLoadingLocation", FALSE))

OnError(q, mounted, message) ==
    Dispatch(Dispatch(q, mounted, Update("locationError", Some(message))),
             mounted, Update("isLoadingLocation", FALSE))

GeolocationEffect_staysLoading(q, supported) ==
    IF ~supported
    THEN [queue |-> Dispatch(q, TRUE,
                        Update("locationError", Some(NotSupported))),
          geo |-> "idle", requests |-> 0]
    ELSE [queue |-> q, geo |-> "pending", requests |-> 1]

(* the mount effect: [queue, geo, requests] after it ran *)
GeolocationEffect(q, supported) ==
    IF ~supported
    THEN [queue |-> Dispatch(Dispatch(q, TRUE,
                        Update("locationError", Some(NotSupported))),
                        TRUE, Update("isLoadingLocation", FALSE)),
          geo |-> "idle", requests |-> 0]
    ELSE [queue |-> q, geo |-> "pending", requests |-> 1]

(* ---- GoogleMap: derived view state ---- *)
defaultCenter(ref) == [lat |-> 377749, lng |-> -1224194, ref |-> ref]

Center(userLocation, ref) ==
    IF userLocation # None THEN userLocation[1] ELSE defaultCenter(ref)

Zoom_truthyLatitude(userLocation) ==
    IF userLocation # None /\ userLocation[1].lat # 0 THEN 15 ELSE 10

Zoom(userLocation) == IF userLocation # None THEN 15 ELSE 10

Title(userLocation) ==
    IF userLocation # None THEN "Your Current Location" ELSE "Default Location"

GoogleMapRender_noEarlyReturn(h, ref) ==
    [shown |-> "map", banner |-> None, wrapper |-> "none",
     props |-> Some([center |-> Center(h.userLocation, ref),
                     zoom |-> Zoom(h.userLocation),
                     title |-> Title(h.userLocation)])]

GoogleMapRender(h, ref) ==
    IF h.isLoadingLocation
    THEN [shown |-> "Getting your location...", banner |-> None,
          wrapper |-> "none", props |-> None]
    ELSE [shown |-> "map",
          banner |-> IF h.locationError # None /\ h.locationError # Some("")
                     THEN h.locationError ELSE None,
          wrapper |-> "none",
          props |-> Some([center |-> Center(h.userLocation, ref),
                          zoom |-> Zoom(h.userLocation),
                          title |-> Title(h.userLocation)])]

(* ---- Wrapper and its render prop ---- *)
render(status) ==
    CASE status = "LOADING" -> "Loading map..."
      [] status = "FAILURE" -> "Failed to load Google Maps"
      [] OTHER -> "null"

WrapperRender(status) == IF status = "SUCCESS" THEN "children" ELSE render(status)

(* ---- Map and Marker effects ---- *)
NoEffects == [mounted |-> FALSE, mapCreate |-> None, mapSync |-> None,
              markerCreate |-> None, markerPosition |-> None,
              cleanupMarker |-> 0]

Changed(old, deps) == old = None \/ old[1] # deps

NewMap(center, zoom) ==
    [center |-> LatLng(center), zoom |-> zoom, mapTypeControl |-> FALSE,
     streetViewControl |-> FALSE, fullscreenControl |-> FALSE]

MapCreateEffect_noGuard(w, map, center, zoom) ==
    [w EXCEPT !.gmaps = Append(@, NewMap(center, zoom)),
              !.queue = Dispatch(@, TRUE, Update("map", Len(w.gmaps) + 1))]

MapCreateEffect(w, map, center, zoom) ==
    IF map = 0
    THEN [w EXCEPT !.gmaps = Append(@, NewMap(center, zoom)),
                   !.queue = Dispatch(@, TRUE, Update("map", Len(w.gmaps) + 1))]
    ELSE w

MapSyncEffect(w, map, center, zoom) ==
    IF map # 0
    THEN [w EXCEPT !.gmaps[map].center = LatLng(center),
                   !.gmaps[map].zoom = zoom]
    ELSE w

NewMarker(position, map, title) ==
    [position |-> LatLng(position), map |-> map,
     title |-> IF title = "" THEN "Your Location" ELSE title]

MarkerCreateEffect_withoutMap(w, marker, map, position, title) ==
    IF marker = 0
    THEN [w EXCEPT !.gmarkers = Append(@, NewMarker(position, map, title)),
                   !.queue = Dispatch(@, TRUE,
                                Update("marker", Len(w.gmarkers) + 1))]
    ELSE w

MarkerCreateEffect(w, marker, map, position, title) ==
    IF marker = 0 /\ map # 0
    THEN [w EXCEPT !.gmarkers = Append(@, NewMarker(position, map, title)),
                   !.queue = Dispatch(@, TRUE,
                                Update("marker", Len(w.gmarkers) + 1))]
    ELSE w

MarkerCleanup(w, marker) ==
    IF marker # 0 THEN [w EXCEPT !.gmarkers[marker].map = 0] ELSE w

MarkerPositionEffect(w, marker, position) ==
    IF marker # 0
    THEN [w EXCEPT !.gmarkers[marker].position = LatLng(position)]
    ELSE w

(* one commit of Map and Marker: clean-ups of the effects whose            *)
(* dependencies changed, then the effect bodies, Marker before Map         *)
MapCommit(w) ==
    LET p  == w.view.props[1]
        h  == w.hooks
        f  == w.fx
        dMarkerCreate   == <<h.marker, h.map, p.center.ref, p.title>>
        dMarkerPosition == <<h.marker, p.center.ref>>
        dMapCreate      == <<h.map, p.center.ref, p.zoom>>
        dMapSync        == <<h.map, p.center.ref, p.zoom>>
        w1 == IF f.markerCreate # None /\ Changed(f.markerCreate, dMarkerCreate)
              THEN MarkerCleanup(w, f.cleanupMarker) ELSE w
        w2 == IF Changed(f.markerCreate, dMarkerCreate)
              THEN MarkerCreateEffect(w1, h.marker, h.map, p.center, p.title)
              ELSE w1
        w3 == IF Changed(f.markerPosition, dMarkerPosition)
              THEN MarkerPositionEffect(w2, h.marker, p.center) ELSE w2
        w4 == IF Changed(f.mapCreate, dMapCreate)
              THEN MapCreateEffect(w3, h.map, p.center, p.zoom) ELSE w3
        w5 == IF Changed(f.mapSync, dMapSync)
              THEN MapSyncEffect(w4, h.map, p.center, p.zoom) ELSE w4
    IN [w5 EXCEPT !.fx = [mounted |-> TRUE,
                          mapCreate |-> Some(dMapCreate),
                          mapSync |-> Some(dMapSync),
                          markerCreate |-> Some(dMarkerCreate),
                          markerPosition |-> Some(dMarkerPosition),
                          cleanupMarker |->
                              IF Changed(f.markerCreate, dMarkerCreate)
                              THEN h.marker ELSE f.cleanupMarker]]

(* the subtree below GoogleMap's settled render *)
WrapperCommit(w) ==
    IF w.hooks.status = "NONE"
    THEN [w EXCEPT !.hooks.status = "LOADING",
                   !.view.wrapper = WrapperRender("LOADING"),
                   !.loader = "inflight",
                   !.calls.libLoads = @ + 1]
    ELSE LET w1 == [w EXCEPT !.view.wrapper = WrapperRender(w.hooks.status)]
         IN IF w1.view.wrapper = "children" THEN MapCommit(w1) ELSE w1

(* one React render pass and commit of the widget *)
Commit(w, forced) ==
    LET h == ApplyUpdates(w.hooks, w.queue)
        dirty == forced \/ \E i \in 1..Len(w.queue) :
                              w.queue[i].hook \in GoogleMapHooks
        v == IF dirty THEN GoogleMapRender(h, w.nextRef) ELSE w.view
        w1 == [w EXCEPT !.hooks = h, !.queue = <<>>, !.view = v,
                        !.nextRef = IF dirty THEN @ + 1 ELSE @]
    IN IF v.shown = "map" THEN WrapperCommit(w1) ELSE w1

World == [hooks |-> hooks, queue |-> queue, view |-> view, fx |-> fx,
          gmaps |-> gmaps, gmarkers |-> gmarkers, loader |-> loader,
          calls |-> calls, nextRef |-> nextRef]

Install(w) ==
    /\ hooks' = w.hooks
    /\ queue' = w.queue
    /\ view' = w.view
    /\ fx' = w.fx
    /\ gmaps' = w.gmaps
    /\ gmarkers' = w.gmarkers
    /\ loader' = w.loader
    /\ calls' = w.calls
    /\ nextRef' = w.nextRef

Mounted == page = "widget"

(* ---- state machine ---- *)
Init ==
    /\ apiKeyEnv \in EnvValues
    /\ hasGeolocation \in BOOLEAN
    /\ page = "initial"
    /\ hooks = InitialHooks
    /\ queue = <<>>
    /\ view = [shown |-> "nothing", banner |-> None, wrapper |-> "none",
               props |-> None]
    /\ fx = NoEffects
    /\ gmaps = <<>>
    /\ gmarkers = <<>>
    /\ geo = "idle"
    /\ loader = "idle"
    /\ calls = [geoRequests |-> 0, libLoads |-> 0, rerenders |-> 0,
                lateCallbacks |-> 0]
    /\ nextRef = 1

HomeMount_preloadsLibrary ==
    /\ page = "initial"
    /\ page' = HomeShows(googleMapsApiKey(apiKeyEnv))
    /\ IF page' = "widget"
       THEN LET e == GeolocationEffect(queue, hasGeolocation)
            IN /\ view' = GoogleMapRender(hooks, nextRef)
               /\ nextRef' = nextRef + 1
               /\ queue' = e.queue
               /\ geo' = e.geo
               /\ calls' = [calls EXCEPT !.geoRequests = @ + e.requests,
                                         !.libLoads = @ + 1]
               /\ loader' = "inflight"
               /\ hooks' = [hooks EXCEPT !.status = "LOADING"]
       ELSE /\ view' = [view EXCEPT !.shown = "Google Maps API Key Required"]
            /\ UNCHANGED <<nextRef, queue, geo, calls, loader, hooks>>
    /\ UNCHANGED <<apiKeyEnv, hasGeolocation, fx, gmaps, gmarkers>>

(* Home renders; with a key the widget mounts, renders its first frame and *)
(* runs the geolocation effect                                             *)
HomeMount ==
    /\ page = "initial"
    /\ page' = HomeShows(googleMapsApiKey(apiKeyEnv))
    /\ IF page' = "widget"
       THEN LET e == GeolocationEffect(queue, hasGeolocation)
            IN /\ view' = GoogleMapRender(hooks, nextRef)
               /\ nextRef' = nextRef + 1
               /\ queue' = e.queue
               /\ geo' = e.geo
               /\ calls' = [calls EXCEPT !.geoRequests = @ + e.requests]
       ELSE /\ view' = [view EXCEPT !.shown = "Google Maps API Key Required"]
            /\ UNCHANGED <<nextRef, queue, geo, calls>>
    /\ UNCHANGED <<apiKeyEnv, hasGeolocation, hooks, fx, gmaps, gmarkers, loader>>

GeoSuccess_watchesPosition ==
    /\ geo = "pending"
    /\ \E position \in Positions :
          queue' = OnSuccess(queue, Mounted, position, nextRef)
    /\ nextRef' = nextRef + 1
    /\ calls' = [calls EXCEPT !.lateCallbacks = IF Mounted THEN @ ELSE @ + 1]
    /\ UNCHANGED <<apiKeyEnv, hasGeolocation, page, hooks, view, fx,
                   gmaps, gmarkers, loader, geo>>

GeoSuccess ==
    /\ geo = "pending"
    /\ \E position \in Positions :
          queue' = OnSuccess(queue, Mounted, position, nextRef)
    /\ nextRef' = nextRef + 1
    /\ geo' = "delivered"
    /\ calls' = [calls EXCEPT !.lateCallbacks = IF Mounted THEN @ ELSE @ + 1]
    /\ UNCHANGED <<apiKeyEnv, hasGeolocation, page, hooks, view, fx,
                   gmaps, gmarkers, loader>>

GeoError ==
    /\ geo = "pending"
    /\ \E message \in ErrorMessages :
          queue' = OnError(queue, Mounted, message)
    /\ geo' = "delivered"
    /\ calls' = [calls EXCEPT !.lateCallbacks = IF Mounted THEN @ ELSE @ + 1]
    /\ UNCHANGED <<apiKeyEnv, hasGeolocation, page, hooks, view, fx,
                   gmaps, gmarkers, loader, nextRef>>

LibraryLoaded ==
    /\ loader = "inflight"
    /\ loader' = "settled"
    /\ queue' = Dispatch(queue, Mounted, Update("status", "SUCCESS"))
    /\ UNCHANGED <<apiKeyEnv, hasGeolocation, page, hooks, view, fx,
                   gmaps, gmarkers, geo, calls, nextRef>>

LibraryFailed ==
    /\ loader = "inflight"
    /\ loader' = "settled"
    /\ queue' = Dispatch(queue, Mounted, Update("status", "FAILURE"))
    /\ UNCHANGED <<apiKeyEnv, hasGeolocation, page, hooks, view, fx,
                   gmaps, gmarkers, geo, calls, nextRef>>

(* React renders because state updates are pending *)
Render ==
    /\ Mounted
    /\ queue # <<>>
    /\ Install(Commit(World, FALSE))
    /\ UNCHANGED <<apiKeyEnv, hasGeolocation, page, geo>>

(* GoogleMap is rendered again by its parent, with unchanged props *)
ParentRerender ==
    /\ Mounted
    /\ calls.rerenders < MaxRerenders
    /\ Install([Commit(World, TRUE) EXCEPT !.calls.rerenders = @ + 1])
    /\ UNCHANGED <<apiKeyEnv, hasGeolocation, page, geo>>

(* the page goes away: effect clean-ups run, pending updates are dropped *)
Unmount ==
    /\ page \in {"widget", "placeholder"}
    /\ page' = "unmounted"
    /\ LET w == IF fx.mounted THEN MarkerCleanup(World, fx.cleanupMarker)
                ELSE World
       IN Install([w EXCEPT !.queue = <<>>])
    /\ UNCHANGED <<apiKeyEnv, hasGeolocation, geo>>

Next ==
    \/ HomeMount
    \/ GeoSuccess
    \/ GeoError
    \/ LibraryLoaded
    \/ LibraryFailed
    \/ Render
    \/ ParentRerender
    \/ Unmount

Spec == Init /\ [][Next]_vars

(* the scheduling the widget runs under: the page renders, React renders   *)
(* whenever updates are pending, and the geolocation capability and the    *)
(* library loader each deliver their one result; re-renders by the parent  *)
(* and the unmount are left to the environment                             *)
LiveSpec ==
    /\ Init
    /\ [][Next]_vars
    /\ WF_vars(HomeMount)
    /\ WF_vars(Render)
    /\ WF_vars(GeoSuccess \/ GeoError)
    /\ WF_vars(LibraryLoaded \/ LibraryFailed)

(* ======================= properties ======================= *)
Rendered == view.shown \in {"Getting your location...", "map"}

FallbackCoordinates == [lat |-> 377749, lng |-> -1224194]

ExactlyOne(a, b, c) ==
    \/ a /\ ~b /\ ~c
    \/ ~a /\ b /\ ~c
    \/ ~a /\ ~b /\ c

(* C1: in every rendered state of the widget exactly one of loading,       *)
(* resolved (userLocation set) and error (locationError set) holds; the    *)
(* location and the error are never both set and neither is set while      *)
(* loading is true.                                                        *)
C1_ExactlyOneGeoState ==
    Rendered =>
        /\ ExactlyOne(hooks.isLoadingLocation,
                      hooks.userLocation # None,
                      hooks.locationError # None)
        /\ (view.shown = "Getting your location...") = hooks.isLoadingLocation

C1_Witness ==
    /\ page = "widget"
    /\ geo = "delivered"
    /\ ~hooks.isLoadingLocation
    /\ hooks.userLocation # None

(* C2: once loading is false the rendered center, zoom and marker title    *)
(* are determined by the stored location: the location itself, 15 and      *)
(* "Your Current Location" when one is stored (also at latitude 0 /        *)
(* longitude 0), the fallback coordinates, 10 and "Default Location"       *)
(* otherwise.                                                              *)
C2_ViewDerivation ==
    (Rendered /\ ~hooks.isLoadingLocation) =>
        /\ view.props # None
        /\ LET p == view.props[1]
           IN /\ hooks.userLocation # None =>
                    /\ p.center = hooks.userLocation[1]
                    /\ p.zoom = 15
                    /\ p.title = "Your Current Location"
              /\ hooks.userLocation = None =>
                    /\ LatLng(p.center) = FallbackCoordinates
                    /\ p.zoom = 10
                    /\ p.title = "Default Location"
              /\ (p.zoom = 15) <=> (hooks.userLocation # None)
              /\ (p.zoom = 10) <=> (hooks.userLocation = None)

C2_Witness ==
    /\ Rendered
    /\ ~hooks.isLoadingLocation
    /\ hooks.userLocation # None
    /\ LatLng(hooks.userLocation[1]) = [lat |-> 0, lng |-> 0]
    /\ view.props[1].zoom = 15

(* C3: a map or marker instance exists only when geolocation has settled   *)
(* and the library status is SUCCESS; while loading the widget shows only  *)
(* the placeholder and has constructed nothing; while the library is       *)
(* LOADING or in FAILURE nothing has been constructed.                     *)
C3_ConstructionIsAJoin ==
    /\ (gmaps # <<>> \/ gmarkers # <<>>) =>
          ~hooks.isLoadingLocation /\ hooks.status = "SUCCESS"
    /\ (Rendered /\ hooks.isLoadingLocation) =>
          /\ view.shown = "Getting your location..."
          /\ view.wrapper = "none"
          /\ ~fx.mounted
          /\ gmaps = <<>> /\ gmarkers = <<>>
    /\ hooks.status \in {"LOADING", "FAILURE"} =>
          gmaps = <<>> /\ gmarkers = <<>>

C3_Witness ==
    /\ gmaps # <<>>
    /\ gmarkers # <<>>
    /\ hooks.status = "SUCCESS"

(* C4 as stated: after the widget mounts the geolocation request and the   *)
(* library load are both in flight.                                        *)
C4_BothInFlightAfterMount ==
    (page = "widget" /\ geo = "pending") => loader = "inflight"

(* C4 amended: the two operations are ordered.  While geolocation is       *)
(* loading the library load has not been started and the library has no    *)
(* status; the load is started by the first render after geolocation       *)
(* settled, so the library is LOADING, READY or in FAILURE only with       *)
(* geolocation settled.                                                    *)
C4_LibraryLoadsAfterGeolocation ==
    /\ hooks.isLoadingLocation =>
          loader = "idle" /\ hooks.status = "NONE" /\ calls.libLoads = 0
    /\ loader # "idle" => geo # "pending" /\ ~hooks.isLoadingLocation
    /\ calls.libLoads <= 1

C4_Witness ==
    /\ page = "widget"
    /\ geo = "delivered"
    /\ loader = "inflight"
    /\ hooks.status = "LOADING"

C6_OneShot ==
    [][ /\ calls'.geoRequests <= 1
        /\ (hooks'.userLocation # hooks.userLocation
              \/ hooks'.locationError # hooks.locationError) =>
              hooks.isLoadingLocation /\ ~hooks'.isLoadingLocation
        /\ ~hooks.isLoadingLocation =>
              /\ ~hooks'.isLoadingLocation
              /\ hooks'.userLocation = hooks.userLocation
              /\ hooks'.locationError = hooks.locationError ]_vars

C6_Witness ==
    /\ ~hooks.isLoadingLocation
    /\ hooks.locationError # None
    /\ geo = "delivered"
    /\ calls.geoRequests = 1
    /\ calls.rerenders > 0
    /\ hooks.status = "SUCCESS"
    /\ gmarkers # <<>>

(* C7: without the geolocation capability no request is ever issued; the   *)
(* mount step leaves the "not supported" error and the cleared loading     *)
(* flag pending, and once rendered the error is that message, the          *)
(* location is unset and the view is the fallback.                         *)
C7_Unsupported ==
    ~hasGeolocation =>
        /\ calls.geoRequests = 0
        /\ geo = "idle"
        /\ hooks.userLocation = None
        /\ (page = "widget" /\ hooks.isLoadingLocation) =>
              queue = << Update("locationError", Some(NotSupported)),
                         Update("isLoadingLocation", FALSE) >>
        /\ (Rendered /\ ~hooks.isLoadingLocation) =>
              /\ hooks.locationError = Some(NotSupported)
              /\ LatLng(view.props[1].center) = FallbackCoordinates
              /\ view.props[1].zoom = 10
              /\ view.props[1].title = "Default Location"

C7_Witness ==
    /\ ~hasGeolocation
    /\ page = "widget"
    /\ ~hooks.isLoadingLocation
    /\ hooks.locationError = Some(NotSupported)
    /\ view.props[1].zoom = 10

(* C8: with a missing or empty API key the page shows the placeholder,     *)
(* the widget is never mounted, nothing is constructed, the library load   *)
(* is never started and no geolocation request is issued.                  *)
C8_NoKeyNoWidget ==
    apiKeyEnv \in {UNDEFINED, ""} =>
        /\ page # "widget"
        /\ view.shown \in {"nothing", "Google Maps API Key Required"}
        /\ gmaps = <<>> /\ gmarkers = <<>>
        /\ loader = "idle" /\ calls.libLoads = 0
        /\ geo = "idle" /\ calls.geoRequests = 0
        /\ hooks = InitialHooks /\ queue = <<>>

C8_Witness ==
    /\ apiKeyEnv = ""
    /\ page = "placeholder"
    /\ view.shown = "Google Maps API Key Required"

(* C9: while the widget is mounted and no update is pending, the marker    *)
(* is attached to the map, its position is the current center, and the     *)
(* map's center and zoom are the current center and zoom.                  *)
C9_MarkerTracksCenter ==
    (page = "widget" /\ queue = <<>> /\ hooks.marker # 0) =>
        /\ hooks.map # 0
        /\ gmarkers[hooks.marker].map = hooks.map
        /\ gmarkers[hooks.marker].position = LatLng(view.props[1].center)
        /\ gmaps[hooks.map].center = LatLng(view.props[1].center)
        /\ gmaps[hooks.map].zoom = view.props[1].zoom

(* the center-update path of Map and Marker: both re-render with a new     *)
(* center object and their effects run                                     *)
CenterUpdate(w, position, ref) ==
    MapCommit([w EXCEPT !.view.props[1].center =
                  [lat |-> position.lat, lng |-> position.lng, ref |-> ref]])

(* C10: at most one map and one marker instance are ever constructed; a    *)
(* center change constructs nothing, and delivering the same coordinates   *)
(* a second time as a new object leaves the map, the marker and the        *)
(* component state as the first delivery left them.                        *)
C10_SingleInstancesIdempotent ==
    /\ Len(gmaps) <= 1
    /\ Len(gmarkers) <= 1
    /\ (page = "widget" /\ queue = <<>> /\ hooks.marker # 0) =>
          \A position \in Positions :
              LET once  == CenterUpdate(World, position, nextRef)
                  twice == CenterUpdate(once, position, nextRef + 1)
              IN /\ Len(once.gmaps) = Len(gmaps)
                 /\ Len(once.gmarkers) = Len(gmarkers)
                 /\ once.gmaps[hooks.map].center = position
                 /\ once.gmarkers[hooks.marker].position = position
                 /\ once.queue = <<>>
                 /\ twice.gmaps = once.gmaps
                 /\ twice.gmarkers = once.gmarkers
                 /\ twice.hooks = once.hooks
                 /\ twice.queue = once.queue

C10_Witness ==
    /\ page = "widget"
    /\ queue = <<>>
    /\ hooks.marker # 0
    /\ calls.rerenders = MaxRerenders
    /\ hooks.userLocation = None
    /\ Len(gmaps) = 1
    /\ Len(gmarkers) = 1

(* C11: after the widget was unmounted every marker that was constructed   *)
(* has an empty map association.                                           *)
C11_TeardownDetachesEveryMarker ==
    page = "unmounted" =>
        \A i \in 1..Len(gmarkers) : gmarkers[i].map = 0

MapShown ==
    /\ ~hooks.isLoadingLocation
    /\ Len(gmaps) = 1
    /\ Len(gmarkers) = 1
    /\ gmarkers[1].map = 1
    /\ view.props # None
    /\ gmaps[1].center = LatLng(view.props[1].center)
    /\ gmaps[1].zoom = view.props[1].zoom

(* C12: with an API key, if the widget is never unmounted and the library  *)
(* never fails, then under fair scheduling loading eventually is false     *)
(* and there are exactly one map, centered on the derived center, and      *)
(* exactly one marker attached to it, whether geolocation succeeded,       *)
(* failed or is unsupported.                                               *)
C12_MapEventuallyShown ==
    ( /\ apiKeyEnv \notin {UNDEFINED, ""}
      /\ [](page # "unmounted")
      /\ [](hooks.status # "FAILURE") )
    => /\ <>(~hooks.isLoadingLocation)
       /\ <>MapShown

C12_Witness ==
    /\ page = "widget"
    /\ MapShown
    /\ hooks.locationError # None
    /\ hooks.locationError # Some(NotSupported)
    /\ geo = "delivered"

====
